---- MODULE Spec2Model ----
(***************************************************************************)
(* Aeye front end: the perception-to-speech orchestration of VisionPage    *)
(* (runLiveLoop / handleStartLive / handleStopLive and the overlay         *)
(* detection interval) together with the hooks it drives: useDetection     *)
(* (processFrame, getLiveNarrative), useSpeech (speak, speakAndWait, stop) *)
(* and useCamera.                                                          *)
(*                                                                         *)
(* JavaScript runs every handler to completion, so one action is one task  *)
(* of the event loop together with the promise continuations (microtasks)  *)
(* it triggers.  A suspended runLiveLoop call is a record of `tasks` that  *)
(* keeps the values its closure captured.  React state is read through the *)
(* closure of the render that created a callback: `rendered` is the        *)
(* snapshot of the last committed render, brought up to date by Render     *)
(* (updates made outside a DOM event) or at the end of a click handler.    *)
(*                                                                         *)
(* Spec is the narration lane with every user action and every outcome of  *)
(* the perception service; SpecRun is an undisturbed run of the narration  *)
(* lane together with the overlay lane; SpecStart is the narration lane    *)
(* with handleStartLive / handleStopLive called by any caller, whatever    *)
(* the page shows.  useInteraction is kept in the record `ix`: SpecIx is   *)
(* the hook with its three operations called in any order, SpecTalk one    *)
(* session that is dictated and submitted, SpecStop the hook behind the    *)
(* pages' Start button with stop and cancel called at any time.  SpecApp   *)
(* is the live loop of the App page beside its quick phrases (SpecAppFair  *)
(* adds the events the speech engine owes), SpecMedia the live loop of     *)
(* MediaPage over an uploaded video.                                       *)
(***************************************************************************)
EXTENDS Integers, Sequences, FiniteSets, TLC

\* ---- bounds of the model ------------------------------------------------
MaxTasks == 2        \* runLiveLoop chains alive at once
MaxSpoken == 3       \* utterances spoken in one behaviour of Spec
MaxCancelled == 1    \* cancelled utterances whose end/error event is still due
MaxDetect == 2       \* /pipeline requests outstanding at once
MaxPayload == 1      \* distinct non-empty response payloads
RunSpoken == 53      \* utterances spoken in one behaviour of SpecRun
HistLen == 4         \* LoopState assignments remembered in stateHist
MaxSessions == 2     \* startRecording calls in one behaviour
MaxFinal == 2        \* finalized recognizer results in one session
MaxStops == 2        \* stopRecording calls suspended at once
MaxRefused == 1      \* stopRecording calls refused at the guard, counted

\* ---- program constants --------------------------------------------------
SliceEnd == 49       \* prev.slice(0, 49)

Apology == "I encountered an error while analyzing the scene."
PersonAhead == "Person ahead"
NoNarrative == ""

Payloads == 0..MaxPayload
TaskIds == 1..MaxTasks
NoCallback == 0

VARIABLES
    isStreaming,    \* useCamera state
    cameraReq,      \* a startCamera call is awaiting getUserMedia / play
    liveLoopRef,    \* liveLoopRef.current, the run flag
    isLiveRunning,  \* VisionPage state
    muted,          \* VisionPage state
    currentState,   \* VisionPage LoopState
    stateHist,      \* the first HistLen values given to setCurrentState (SpecRun)
    lastTrace,      \* VisionPage state
    detections,     \* useDetection state (payload index, 0 = [])
    latency,        \* useDetection state (payload index, 0 = 0 ms)
    lastNarrative,  \* useDetection state
    isProcessing,   \* useDetection state
    isDetecting,    \* useDetection state
    rendered,       \* state values seen by the closures of the last render
    tasks,          \* suspended runLiveLoop calls
    lastResp,       \* outcome of the latest /live call: "", "ok" or "fail"
    lastDet,        \* outcome of the latest /pipeline call: "", "ok" or "fail"
    detCalls,       \* /pipeline requests in flight
    synth,          \* speechSynthesis: the utterance queued or being spoken
    cancelled,      \* cancelled utterances whose event is still to be delivered
    onCompleteRef,  \* onCompleteRef.current: the waiting task, or NoCallback
    isSpeaking,     \* useSpeech state
    speechLog,      \* useSpeech state, newest entry first
    nSpoken,        \* utterances created so far (stands for Date.now())
    media,          \* MediaPage: the uploaded video and its element
    ix              \* useInteraction: state, refs, devices and pending calls

vars == <<isStreaming, cameraReq, liveLoopRef, isLiveRunning, muted,
          currentState, stateHist, lastTrace, detections, latency,
          lastNarrative, isProcessing, isDetecting, rendered, tasks,
          lastResp, lastDet, detCalls, synth, cancelled, onCompleteRef, isSpeaking, speechLog,
          nSpoken, media, ix>>

\* pc: "none" | "retry" | "fetch" | "speak" | "pace", and "camera" for a
\* handleStartLive call suspended in `await startCamera()`
\* isStreaming, muted: the values captured by the closure of the chain
NoTask == [pc |-> "none", isStreaming |-> FALSE, muted |-> FALSE]
NoTrace == [narrative |-> NoNarrative, payload |-> -1]
\* by: the speakAndWait caller that created the utterance (NoCallback for speak)
SynthIdle == [state |-> "idle", text |-> NoNarrative, by |-> NoCallback]
NoHist == <<"unrecorded">>
\* loaded: mediaUrl is set and the <video> is mounted; ready: the metadata
\* has arrived (videoWidth > 0); paused: video.paused || video.ended
\* haltedBy: who cleared the run flag last, "stop" (handleStopLive) or "loop"
NoMedia == [loaded |-> FALSE, ready |-> FALSE, paused |-> TRUE,
            haltedBy |-> ""]

\* ---- useInteraction: state after construction ------------------------------
\* A session is one startRecording call; session k owns stream k, recognizer
\* k and recorder k, and the backend answers its startInteraction with id k.
Sessions == 1..MaxSessions
NoRef == 0

\* Texts are sequences of tokens; Space is the blank that onresult appends.
Space == " "

\* pc of a startRecording call: "none" | "mic" | "backend" | "done" | "failed"
\* isRecording: the value closed over by this call and by its onend handler
NoStart == [pc |-> "none", isRecording |-> FALSE]

\* pc of a stopRecording call: "none" | "onstop" | "backend"
StopIds == 1..MaxStops
NoStop == [pc |-> "none", sessionId |-> NoRef, transcript |-> <<>>,
           recorder |-> NoRef]

IxInit ==
    [isRecording |-> FALSE, sessionId |-> NoRef, isProcessing |-> FALSE,
     error |-> FALSE,         \* an error message is shown (null otherwise)
     liveTranscript |-> <<>>, transcriptRef |-> <<>>,
     streamRef |-> NoRef, recognitionRef |-> NoRef, mediaRecorderRef |-> NoRef,
     rendered |-> [isRecording |-> FALSE, sessionId |-> NoRef,
                   liveTranscript |-> <<>>],
     \* devices: MediaStream tracks, SpeechRecognition and MediaRecorder objects
     streams |-> [k \in Sessions |-> [state |-> "none", stops |-> 0]],
     recognizers |-> [k \in Sessions |->
                        [state |-> "none", onend |-> FALSE, stops |-> 0]],
     recorders |-> [k \in Sessions |-> "none"],
     \* MediaRecorder.onstop: the stopRecording call whose promise it resolves
     onstop |-> [k \in Sessions |-> NoRef],
     \* calls in progress
     starts |-> [k \in Sessions |-> NoStart],
     stopCalls |-> [c \in StopIds |-> NoStop],
     nStarted |-> 0,
     \* history
     submitted |-> {},        \* stopInteraction requests sent
     sent |-> [id \in 0..MaxSessions |-> 0],  \* their number per session id
     rejected |-> 0,          \* stopRecording calls that have thrown
     returnedNull |-> 0,      \* stopRecording calls refused at the guard
     \* what the guard of the latest refused call read
     refusedAt |-> [isRecording |-> FALSE, recorder |-> NoRef],
     cancelledIds |-> {},     \* session ids shown when cancelRecording ran
     lastCall |-> "",         \* the latest of startRecording / cancelRecording
     selfEnded |-> {},        \* recognizers that have ended by themselves
     finals |-> <<>>,         \* fragments finalized since the last reset
     interim |-> <<>>]        \* interim text of the latest recognizer event

\* The program state as one record, so that handlers compose as functions.
Cur == [isStreaming |-> isStreaming, cameraReq |-> cameraReq,
        liveLoopRef |-> liveLoopRef, isLiveRunning |-> isLiveRunning,
        muted |-> muted, currentState |-> currentState,
        stateHist |-> stateHist, lastTrace |-> lastTrace,
        detections |-> detections, latency |-> latency,
        lastNarrative |-> lastNarrative, isProcessing |-> isProcessing,
        isDetecting |-> isDetecting, rendered |-> rendered, tasks |-> tasks,
        lastResp |-> lastResp, lastDet |-> lastDet,
        detCalls |-> detCalls, synth |-> synth, cancelled |-> cancelled,
        onCompleteRef |-> onCompleteRef, isSpeaking |-> isSpeaking,
        speechLog |-> speechLog, nSpoken |-> nSpoken, media |-> media]

Becomes(s) ==
    /\ isStreaming' = s.isStreaming
    /\ cameraReq' = s.cameraReq
    /\ liveLoopRef' = s.liveLoopRef
    /\ isLiveRunning' = s.isLiveRunning
    /\ muted' = s.muted
    /\ currentState' = s.currentState
    /\ stateHist' = s.stateHist
    /\ lastTrace' = s.lastTrace
    /\ detections' = s.detections
    /\ latency' = s.latency
    /\ lastNarrative' = s.lastNarrative
    /\ isProcessing' = s.isProcessing
    /\ isDetecting' = s.isDetecting
    /\ rendered' = s.rendered
    /\ tasks' = s.tasks
    /\ lastResp' = s.lastResp
    /\ lastDet' = s.lastDet
    /\ detCalls' = s.detCalls
    /\ synth' = s.synth
    /\ cancelled' = s.cancelled
    /\ onCompleteRef' = s.onCompleteRef
    /\ isSpeaking' = s.isSpeaking
    /\ speechLog' = s.speechLog
    /\ nSpoken' = s.nSpoken
    /\ media' = s.media
    /\ ix' = ix

InitWith(hist) ==
    /\ isStreaming = FALSE
    /\ cameraReq = FALSE
    /\ liveLoopRef = FALSE
    /\ isLiveRunning = FALSE
    /\ muted = FALSE
    /\ currentState = "idle"
    /\ stateHist = hist
    /\ lastTrace = NoTrace
    /\ detections = 0
    /\ latency = 0
    /\ lastNarrative = NoNarrative
    /\ isProcessing = FALSE
    /\ isDetecting = FALSE
    /\ rendered = [isStreaming |-> FALSE, isDetecting |-> FALSE]
    /\ tasks = [t \in TaskIds |-> NoTask]
    /\ lastResp = ""
    /\ lastDet = ""
    /\ detCalls = 0
    /\ synth = SynthIdle
    /\ cancelled = 0
    /\ onCompleteRef = NoCallback
    /\ isSpeaking = FALSE
    /\ speechLog = <<>>
    /\ nSpoken = 0
    /\ media = NoMedia
    /\ ix = IxInit

Init == InitWith(NoHist)

InitRun == InitWith(<<>>)

\* ---- React state setters -------------------------------------------------
setCurrentState(s, v) ==
    [s EXCEPT !.currentState = v,
              !.stateHist = IF @ # NoHist /\ Len(@) < HistLen
                            THEN Append(@, v) ELSE @]

setIsProcessing(s, v) ==
    [s EXCEPT !.isProcessing = v]

setIsDetecting(s, v) ==
    [s EXCEPT !.isDetecting = v]

setIsSpeaking(s, v) ==
    [s EXCEPT !.isSpeaking = v]

setLastTrace(s, v) ==
    [s EXCEPT !.lastTrace = v]

\* setDetections(data.detections || []); setLatency(data.timing?.total_ms || 0)
setOverlay(s, p) ==
    [s EXCEPT !.detections = p, !.latency = p]

setLastNarrative(s, v) ==
    [s EXCEPT !.lastNarrative = v]

\* The values the closures of a render read.
Snapshot(s) ==
    [isStreaming |-> s.isStreaming, isDetecting |-> s.isDetecting]

\* React commits the pending updates; the interval effect is re-created
\* with the processFrame / captureFrame of this render.
Commit(s) ==
    [s EXCEPT !.rendered = Snapshot(s)]

\* ---- useCamera -----------------------------------------------------------
\* captureFrame of the render whose isStreaming was `streaming`: TRUE is a
\* data URL, FALSE is null (videoRef.current is attached while the page is
\* mounted).
captureFrame(streaming) ==
    streaming

\* ---- useSpeech -----------------------------------------------------------
\* speechSynthesis.cancel(): the utterance queued or spoken is dropped and
\* the engine still owes it an error/end event.
synthCancel(s) ==
    IF s.synth.state = "idle"
    THEN s
    ELSE [s EXCEPT !.synth = SynthIdle,
                   !.cancelled = IF @ < MaxCancelled THEN @ + 1 ELSE @]

\* Variant: one entry too many is kept (slice(0, 50)).
logAppend_KeepsOneMore(log, entry) ==
    <<entry>> \o SubSeq(log, 1, IF Len(log) < SliceEnd + 1 THEN Len(log) ELSE SliceEnd + 1)

\* [entry, ...prev.slice(0, 49)]
logAppend(log, entry) ==
    <<entry>> \o SubSeq(log, 1, IF Len(log) < SliceEnd THEN Len(log) ELSE SliceEnd)

setSpeechLog(s, text) ==
    [s EXCEPT !.speechLog = logAppend(@, [text |-> text, id |-> s.nSpoken + 1])]

\* Variant: LoopState is not set to done after the utterance.
afterSpeech_NoDone(s, t) ==
    IF s.liveLoopRef
    THEN [s EXCEPT !.tasks[t].pc = "pace"]
    ELSE [s EXCEPT !.tasks[t] = NoTask]

\* runLiveLoop after `await speakAndWait(...)`, or when nothing is spoken.
afterSpeech(s, t) ==
    LET s1 == setCurrentState(s, "done")
    IN  IF s1.liveLoopRef
        THEN [s1 EXCEPT !.tasks[t].pc = "pace"]
        ELSE [s1 EXCEPT !.tasks[t] = NoTask]

\* The promise of speakAndWait is resolved: its awaiter continues.
resolveWaiter(s, t) ==
    IF s.tasks[t].pc # "speak" THEN s ELSE afterSpeech(s, t)

\* speak(text, {onComplete}) with onComplete the resolver of task cb.
speak(s, text, cb) ==
    IF text = NoNarrative
    THEN IF cb # NoCallback THEN resolveWaiter(s, cb) ELSE s
    ELSE LET s1 == synthCancel(s)
             s2 == [s1 EXCEPT !.onCompleteRef = cb]
             s3 == setSpeechLog(s2, text)
         IN  [s3 EXCEPT !.synth = [state |-> "queued", text |-> text,
                                   by |-> cb],
                        !.nSpoken = @ + 1]

\* speakAndWait(text) awaited by task t.
speakAndWait(s, text, t) ==
    speak([s EXCEPT !.tasks[t].pc = "speak"], text, t)

\* utterance.onend / utterance.onerror
onUtteranceDone(s) ==
    LET s1 == setIsSpeaking(s, FALSE)
    IN  IF s1.onCompleteRef # NoCallback
        THEN [resolveWaiter(s1, s1.onCompleteRef) EXCEPT !.onCompleteRef = NoCallback]
        ELSE s1

\* Variant: the pending callback is cleared but the engine is not cancelled.
stop_NoCancel(s) ==
    [setIsSpeaking(s, FALSE) EXCEPT !.onCompleteRef = NoCallback]

\* useSpeech.stop
stop(s) ==
    LET s1 == synthCancel(s)
        s2 == setIsSpeaking(s1, FALSE)
    IN  [s2 EXCEPT !.onCompleteRef = NoCallback]

\* ---- useDetection --------------------------------------------------------
\* Variant: the catch branch returns no narrative.
liveResult_SilentOnError(ok, narr, p) ==
    IF ok
    THEN [narrative |-> narr, timing |-> p > 0, payload |-> p]
    ELSE [narrative |-> NoNarrative, timing |-> TRUE, payload |-> 0]

\* The value getLiveNarrative returns.  p = 0 is a response without
\* detections and timing.
liveResult(ok, narr, p) ==
    IF ok
    THEN [narrative |-> narr, timing |-> p > 0, payload |-> p]
    ELSE [narrative |-> Apology, timing |-> TRUE, payload |-> 0]

\* getLiveNarrative after the /live response: try / catch / finally.
getLiveNarrativeDone(s, ok, narr, p) ==
    LET s1 == IF ok THEN setLastNarrative(setOverlay(s, p), narr) ELSE s
    IN  setIsProcessing(s1, FALSE)

\* Variant: the poller also yields to the narration lane's isProcessing.
processFrame_SharedFlag(s, detecting) ==
    IF detecting \/ s.isProcessing
    THEN s
    ELSE [setIsDetecting(s, TRUE) EXCEPT !.detCalls = @ + 1]

\* processFrame of the render in which isDetecting was `detecting`, up to
\* `await fetch(.../pipeline)`.
processFrame(s, detecting) ==
    IF detecting
    THEN s
    ELSE [setIsDetecting(s, TRUE) EXCEPT !.detCalls = @ + 1]

\* Variant: a failed /pipeline call clears the overlay.
processFrameDone_ClearsOnError(s, ok, p) ==
    LET s1 == IF ok THEN setOverlay(s, p) ELSE setOverlay(s, 0)
    IN  [setIsDetecting(s1, FALSE) EXCEPT !.detCalls = @ - 1]

\* processFrame after the /pipeline response: try / catch / finally.
processFrameDone(s, ok, p) ==
    LET s1 == IF ok THEN setOverlay(s, p) ELSE s
    IN  [setIsDetecting(s1, FALSE) EXCEPT !.detCalls = @ - 1]

\* ---- VisionPage ----------------------------------------------------------
\* runLiveLoop of task t, from its first line to its first suspension.
runLiveLoop(s, t) ==
    LET cl == s.tasks[t]
    IN  IF ~s.liveLoopRef \/ ~cl.isStreaming
        THEN [s EXCEPT !.tasks[t] = NoTask]
        ELSE LET s1 == setCurrentState(s, "capturing")
             IN  IF ~captureFrame(cl.isStreaming)
                 THEN [s1 EXCEPT !.tasks[t].pc = "retry"]
                 ELSE [setIsProcessing(setCurrentState(s1, "thinking"), TRUE)
                          EXCEPT !.tasks[t].pc = "fetch"]

\* Variant: the run flag is not re-checked after the call returned.
afterNarrative_NoRecheck(s, t, result) ==
    LET s1 == IF result.timing
              THEN setLastTrace(s, [narrative |-> result.narrative,
                                    payload |-> result.payload])
              ELSE s
    IN  IF result.narrative # NoNarrative /\ ~s.tasks[t].muted
        THEN speakAndWait(setCurrentState(s1, "speaking"), result.narrative, t)
        ELSE afterSpeech(s1, t)

\* runLiveLoop after `await getLiveNarrative(frame)` returned `result`.
afterNarrative(s, t, result) ==
    IF ~s.liveLoopRef
    THEN [s EXCEPT !.tasks[t] = NoTask]
    ELSE LET s1 == IF result.timing
                   THEN setLastTrace(s, [narrative |-> result.narrative,
                                         payload |-> result.payload])
                   ELSE s
         IN  IF result.narrative # NoNarrative /\ ~s.tasks[t].muted
             THEN speakAndWait(setCurrentState(s1, "speaking"), result.narrative, t)
             ELSE afterSpeech(s1, t)

FreeTasks(s) == {t \in TaskIds : s.tasks[t].pc = "none"}

Min(S) == CHOOSE x \in S : \A y \in S : x <= y

\* handleStartLive, invoked from the render in which isStreaming was true
\* (the button is disabled otherwise), as task t.
handleStartLive(s, t) ==
    LET s1 == [s EXCEPT !.liveLoopRef = TRUE, !.isLiveRunning = TRUE,
                        !.tasks[t] = [NoTask EXCEPT !.isStreaming = s.rendered.isStreaming,
                                                    !.muted = s.muted]]
    IN  runLiveLoop(s1, t)

\* handleStartLive called while the closure's isStreaming is false, up to
\* `await startCamera()`
handleStartLiveAwait(s, t) ==
    [s EXCEPT !.cameraReq = TRUE,
              !.tasks[t] = [pc |-> "camera", isStreaming |-> FALSE,
                            muted |-> s.muted]]

\* handleStartLive after `await startCamera()`: startCamera resolves whether
\* or not the camera started; runLiveLoop is the one closed over at the call
handleStartLiveResumed(s, t) ==
    runLiveLoop([s EXCEPT !.liveLoopRef = TRUE, !.isLiveRunning = TRUE], t)

AwaitingCamera(s) == {t \in TaskIds : s.tasks[t].pc = "camera"}

RECURSIVE resumeStarts(_, _)
\* The handleStartLive calls that await the startCamera call now settling
resumeStarts(s, waiting) ==
    IF waiting = {} THEN s
    ELSE LET t == Min(waiting)
         IN  resumeStarts(handleStartLiveResumed(s, t), waiting \ {t})

\* handleStopLive
handleStopLive(s) ==
    LET s1 == [s EXCEPT !.liveLoopRef = FALSE, !.isLiveRunning = FALSE]
    IN  stop(setCurrentState(s1, "idle"))

\* ---- actions: one task of the event loop each ------------------------------
\* "Start Camera" button: startCamera up to `await getUserMedia(...)`.
StartCamera ==
    /\ ~rendered.isStreaming /\ ~cameraReq
    /\ Becomes(Commit([Cur EXCEPT !.cameraReq = TRUE]))

\* getUserMedia and video.play() succeeded.
CameraGranted ==
    /\ cameraReq
    /\ LET s1 == [Cur EXCEPT !.cameraReq = FALSE, !.isStreaming = TRUE]
       IN  Becomes(resumeStarts(s1, AwaitingCamera(s1)))

\* getUserMedia or video.play() rejected: the catch branch of startCamera.
CameraDenied ==
    /\ cameraReq
    /\ LET s1 == [Cur EXCEPT !.cameraReq = FALSE, !.isStreaming = FALSE]
       IN  Becomes(resumeStarts(s1, AwaitingCamera(s1)))

\* "Stop Camera" button (disabled while isLiveRunning): stopCamera.
StopCamera ==
    /\ rendered.isStreaming /\ ~isLiveRunning
    /\ Becomes(Commit([Cur EXCEPT !.isStreaming = FALSE]))

\* React commits the updates made outside a DOM event.
Render ==
    /\ rendered # Snapshot(Cur)
    /\ Becomes(Commit(Cur))

\* A tick of the detection interval created by the last committed render.
PollTick ==
    /\ rendered.isStreaming
    /\ detCalls < MaxDetect
    /\ IF captureFrame(rendered.isStreaming)
       THEN Becomes(processFrame(Cur, rendered.isDetecting))
       ELSE UNCHANGED vars

\* The /pipeline response (or its failure) arrives.
DetectResponse ==
    /\ detCalls > 0
    /\ \E ok \in BOOLEAN, p \in Payloads :
          /\ ok \/ p = 0
          /\ Becomes([processFrameDone(Cur, ok, p) EXCEPT
                         !.lastDet = IF ok THEN "ok" ELSE "fail"])

\* "Start Live Assist" button (shown when ~isLiveRunning, disabled when
\* ~isStreaming): handleStartLive and the first run of runLiveLoop.
StartLive ==
    /\ ~isLiveRunning /\ rendered.isStreaming
    /\ FreeTasks(Cur) # {}
    /\ Becomes(Commit(handleStartLive(Cur, Min(FreeTasks(Cur)))))

\* "Stop Live Assist" button (shown when isLiveRunning): handleStopLive.
StopLive ==
    /\ isLiveRunning
    /\ Becomes(Commit(handleStopLive(Cur)))

\* The /live response (or its failure) arrives for task t: the rest of
\* getLiveNarrative, then runLiveLoop up to its next suspension.  A
\* successful response carries a narrative and a payload, or neither.
LiveResponseOf(t, oks, narrs, bound) ==
    /\ tasks[t].pc = "fetch"
    /\ \E ok \in oks, narr \in narrs :
          /\ ~ok => narr = NoNarrative
          /\ \E p \in Payloads :
                /\ (p = 0) = (narr = NoNarrative)
                /\ LET r == liveResult(ok, narr, p)
                       s1 == getLiveNarrativeDone(Cur, ok, narr, p)
                       s2 == [s1 EXCEPT !.lastResp = IF ok THEN "ok" ELSE "fail"]
                       s3 == afterNarrative(s2, t, r)
                   IN  /\ s3.nSpoken <= bound
                       /\ Becomes(s3)

LiveResponse ==
    \E t \in TaskIds :
        LiveResponseOf(t, BOOLEAN, {PersonAhead, NoNarrative}, MaxSpoken)

\* setTimeout(() => runLiveLoop(), 500 | 100) fires for task t.
LoopTimer ==
    \E t \in TaskIds :
        /\ tasks[t].pc \in {"retry", "pace"}
        /\ Becomes(runLiveLoop(Cur, t))

\* utterance.onstart
UtteranceStart ==
    /\ synth.state = "queued"
    /\ Becomes([setIsSpeaking(Cur, TRUE) EXCEPT !.synth.state = "speaking"])

\* utterance.onend of the utterance being spoken
UtteranceEnd ==
    /\ synth.state = "speaking"
    /\ Becomes(onUtteranceDone([Cur EXCEPT !.synth = SynthIdle]))

\* utterance.onerror of the utterance queued or being spoken
UtteranceError ==
    /\ synth.state \in {"queued", "speaking"}
    /\ Becomes(onUtteranceDone([Cur EXCEPT !.synth = SynthIdle]))

\* The error/end event of an utterance removed by speechSynthesis.cancel().
CancelledEvent ==
    /\ cancelled > 0
    /\ Becomes(onUtteranceDone([Cur EXCEPT !.cancelled = @ - 1]))

\* "Voice Output" toggle: setMuted(!muted)
ToggleMute ==
    \E m \in {~muted} :
        Becomes(Commit([Cur EXCEPT !.muted = m]))

Next ==
    \/ StartCamera \/ CameraGranted \/ CameraDenied \/ StopCamera
    \/ Render
    \/ StartLive \/ StopLive \/ LiveResponse \/ LoopTimer
    \/ UtteranceStart \/ UtteranceEnd \/ UtteranceError \/ CancelledEvent
    \/ ToggleMute

Spec == Init /\ [][Next]_vars

\* An undisturbed run: the camera is started, live assist is started and
\* never stopped, the service answers every /live call with a narrative,
\* every utterance plays to its end; the overlay lane polls meanwhile.
LiveResponseRun ==
    \E t \in TaskIds :
        LiveResponseOf(t, {TRUE}, {PersonAhead}, RunSpoken)

NextRun ==
    \/ StartCamera \/ CameraGranted
    \/ Render \/ PollTick \/ DetectResponse
    \/ StartLive \/ LiveResponseRun \/ LoopTimer
    \/ UtteranceStart \/ UtteranceEnd

SpecRun == InitRun /\ [][NextRun]_vars

\* ---- properties -----------------------------------------------------------
LiveCalls == {t \in TaskIds : tasks[t].pc = "fetch"}

Waiters == {t \in TaskIds : tasks[t].pc = "speak"}

Suspended == {"retry", "fetch", "speak", "pace"}

\* C1: whatever the sequence of start() and stop() calls, network responses,
\* speech completions and timer firings, at most one /live (liveNarrate)
\* call of the live loop is in flight.
C1_OneLiveNarrateInFlight ==
    Cardinality(LiveCalls) <= 1

\* C2: every speakAndWait call resolves exactly once and never stays
\* pending: as long as a caller waits, the hook still holds its resolver, so
\* that the end or error of its utterance resolves it.
C2_SpeakAndWaitResolves ==
    \A t \in Waiters : onCompleteRef = t

\* C3: when speak/speakAndWait is called while an earlier speakAndWait
\* caller is waiting, the earlier caller's promise is resolved; there are
\* never two waiting callers; and the event of a cancelled (earlier)
\* utterance resolves nobody, the new caller waits for its own utterance.
C3_SupersedeResolvesEarlier ==
    [][ /\ \A e \in TaskIds :
              (onCompleteRef = e /\ onCompleteRef' \notin {e, NoCallback})
                  => tasks'[e].pc # "speak"
        /\ Cardinality(Waiters') <= 1
        /\ cancelled' < cancelled
              => \A t \in Waiters : tasks'[t].pc = "speak" ]_vars

\* C4: stop() while an utterance is queued or playing cancels the speech
\* engine in the very step that clears the run flag, without waiting for the
\* utterance (the waiting iteration is not resumed), and leaves LoopState
\* Idle.
C4_StopHaltsSpeech ==
    [][ (liveLoopRef /\ ~liveLoopRef')
            => /\ synth' = SynthIdle
               /\ ~isSpeaking'
               /\ onCompleteRef' = NoCallback
               /\ currentState' = "idle"
               /\ ~isLiveRunning'
               /\ tasks' = tasks ]_vars

\* A state right after stop() interrupted an utterance of the loop: the
\* iteration is still suspended in speakAndWait, the engine is idle and owes
\* the event of the cancelled utterance.
C4_Witness ==
    /\ ~liveLoopRef /\ currentState = "idle"
    /\ synth = SynthIdle /\ cancelled > 0
    /\ Waiters # {}

\* C5: an iteration that resumes while the run flag is false (stop() was
\* called during its suspension and start() was not called again) ends at
\* once: no speech, no log entry, no trace, LoopState untouched, no further
\* iteration scheduled.
C5_StoppedIterationInert ==
    [][ (~liveLoopRef /\ ~liveLoopRef')
            => \A t \in TaskIds :
                  (tasks[t].pc \in Suspended /\ tasks'[t] # tasks[t])
                      => /\ tasks'[t] = NoTask
                         /\ synth' = synth
                         /\ onCompleteRef' = onCompleteRef
                         /\ speechLog' = speechLog
                         /\ nSpoken' = nSpoken
                         /\ lastTrace' = lastTrace
                         /\ currentState' = currentState
                         /\ currentState' = "idle" ]_vars

\* A state after a /live response with a narrative reached an iteration that
\* had been stopped: getLiveNarrative saw the narrative, the loop recorded
\* no trace and spoke nothing, and no iteration is left.
C5_Witness ==
    /\ ~liveLoopRef /\ currentState = "idle"
    /\ lastResp = "ok" /\ lastNarrative = PersonAhead
    /\ lastTrace = NoTrace /\ nSpoken = 0
    /\ \A t \in TaskIds : tasks[t] = NoTask

\* C6: a perception response that arrives after its loop was cancelled (the
\* /live response of an iteration, arriving while the run flag is false) is
\* discarded: detections, latency and lastNarrative are left unchanged.
C6_StaleResultDiscarded ==
    [][ (~liveLoopRef /\ \E t \in TaskIds :
             tasks[t].pc = "fetch" /\ tasks'[t].pc # "fetch")
            => /\ detections' = detections
               /\ latency' = latency
               /\ lastNarrative' = lastNarrative ]_vars

LoopOrder == <<"capturing", "thinking", "speaking", "done">>

FirstIterationDone ==
    nSpoken = 1 /\ \E t \in TaskIds : tasks[t].pc = "pace"

\* C8: in an undisturbed, unmuted run in which the service returns the
\* narrative "Person ahead", LoopState is set to Capturing, Thinking,
\* Speaking, Done in exactly that order, and when the first iteration is
\* Done the speech log holds exactly one entry, with that narrative.
C8_FirstIteration ==
    /\ \A i \in 1..Len(stateHist) :
          stateHist[i] = LoopOrder[((i - 1) % Len(LoopOrder)) + 1]
    /\ FirstIterationDone
          => /\ Len(stateHist) >= Len(LoopOrder)
             /\ currentState = "done"
             /\ Len(speechLog) = 1
             /\ speechLog[1].text = PersonAhead

C8_Witness ==
    /\ FirstIterationDone
    /\ currentState = "done"
    /\ stateHist = LoopOrder
    /\ Len(speechLog) = 1

\* C9: the speech log holds at most 50 entries and they are the most
\* recently spoken utterances, newest first: from the 51st utterance on each
\* new entry drops exactly the oldest one.
C9_LogKeepsNewest50 ==
    /\ Len(speechLog) = IF nSpoken < 50 THEN nSpoken ELSE 50
    /\ \A i \in 1..Len(speechLog) : speechLog[i].id = nSpoken - i + 1

\* 52 utterances were spoken: the log holds the 50 newest ones, 52 down to 3.
C9_Witness ==
    /\ nSpoken = 52
    /\ Len(speechLog) = 50
    /\ speechLog[1].id = 52
    /\ speechLog[50].id = 3

\* C10: the overlay poller never has two /pipeline (detect) calls
\* outstanding, for every interleaving of ticks, responses and re-renders.
C10_OneDetectInFlight ==
    detCalls <= 1

C12_DetectFailureKeepsOverlay ==
    [][ (detCalls' < detCalls /\ lastDet' = "fail")
            => /\ detections' = detections
               /\ latency' = latency
               /\ ~isDetecting'
               /\ detCalls' = detCalls - 1
               /\ isStreaming' = isStreaming ]_vars

\* No /live response has arrived, the latest /pipeline call failed, and the
\* list still shows what an earlier /pipeline response put there; the flag
\* is free and the camera streams, so the next tick polls again.
C12_Witness ==
    /\ lastDet = "fail" /\ lastResp = ""
    /\ detections > 0 /\ latency > 0
    /\ detCalls = 0 /\ ~isDetecting
    /\ isStreaming /\ rendered.isStreaming

\* ---- useInteraction --------------------------------------------------------
Max(S) == CHOOSE x \in S : \A y \in S : x >= y

\* String.prototype.trim on a sequence of tokens
Trim(text) ==
    LET solid == {i \in 1..Len(text) : text[i] # Space}
    IN  IF solid = {} THEN <<>> ELSE SubSeq(text, Min(solid), Max(solid))

\* What the speaker says, phrase by phrase.
Heard(i) == IF i = 1 THEN "Hello" ELSE IF i = 2 THEN "there" ELSE "friend"

\* event.results from event.resultIndex on, after n results were finalized:
\* one or two results, each final or interim.
ResultEvents(n) ==
    {[j \in 1..Len(flags) |->
         [transcript |-> <<Heard(n + j)>>, isFinal |-> flags[j]]] :
       flags \in [1..1 -> BOOLEAN] \cup [1..2 -> BOOLEAN]}

RECURSIVE finalTranscriptOf(_)
\* onresult: `finalTranscript += transcript + ' '` over the final results
finalTranscriptOf(results) ==
    IF results = <<>> THEN <<>>
    ELSE (IF Head(results).isFinal
          THEN Head(results).transcript \o <<Space>>
          ELSE <<>>) \o finalTranscriptOf(Tail(results))

RECURSIVE interimTranscriptOf(_)
\* onresult: `interimTranscript += transcript` over the other results
interimTranscriptOf(results) ==
    IF results = <<>> THEN <<>>
    ELSE (IF Head(results).isFinal THEN <<>> ELSE Head(results).transcript)
         \o interimTranscriptOf(Tail(results))

\* The fragments an event finalizes, one element each.
FinalFragments(results) ==
    LET fin == SelectSeq(results, LAMBDA r : r.isFinal)
    IN  [i \in 1..Len(fin) |-> fin[i].transcript \o <<Space>>]

RECURSIVE Concat(_)
Concat(fragments) ==
    IF fragments = <<>> THEN <<>>
    ELSE Head(fragments) \o Concat(Tail(fragments))

\* recognition.onresult
onresult(x, results) ==
    LET acc == x.transcriptRef \o finalTranscriptOf(results)
    IN  [x EXCEPT !.transcriptRef = acc,
                  !.liveTranscript = acc \o interimTranscriptOf(results),
                  !.finals = @ \o FinalFragments(results),
                  !.interim = interimTranscriptOf(results)]

\* The values the callbacks of a render close over.
IxSnapshot(x) ==
    [isRecording |-> x.isRecording, sessionId |-> x.sessionId,
     liveTranscript |-> x.liveTranscript]

IxCommit(x) == [x EXCEPT !.rendered = IxSnapshot(x)]

\* streamRef.current.getTracks().forEach(track => track.stop())
stopTracks(x) ==
    IF x.streamRef = NoRef THEN x
    ELSE [x EXCEPT !.streams[x.streamRef] =
                       [state |-> "stopped", stops |-> @.stops + 1],
                   !.streamRef = NoRef]

\* Variant: only .stop() is called; the handler and the ref are kept.
stopRecognition_StaysAttached(x) ==
    IF x.recognitionRef = NoRef THEN x
    ELSE [x EXCEPT !.recognizers[x.recognitionRef] =
                       [state |-> IF @.state = "running" THEN "stopped"
                                  ELSE @.state,
                        onend |-> @.onend, stops |-> @.stops + 1]]

\* recognitionRef.current.onend = null; .stop(); recognitionRef.current = null
stopRecognition(x) ==
    IF x.recognitionRef = NoRef THEN x
    ELSE [x EXCEPT !.recognizers[x.recognitionRef] =
                       [state |-> IF @.state = "running" THEN "stopped"
                                  ELSE @.state,
                        onend |-> FALSE, stops |-> @.stops + 1],
                   !.recognitionRef = NoRef]

\* MediaRecorder.stop(): a recording recorder becomes inactive and owes its
\* stop event; on an inactive recorder nothing happens.
recorderStop(x, m) ==
    IF x.recorders[m] = "recording"
    THEN [x EXCEPT !.recorders[m] = "stopping"]
    ELSE x

\* startRecording up to `await getUserMedia(...)`, as call k
startRecording(x, k) ==
    [x EXCEPT !.error = FALSE,
              !.liveTranscript = <<>>, !.transcriptRef = <<>>,
              !.finals = <<>>, !.interim = <<>>,
              !.starts[k] = [pc |-> "mic",
                             isRecording |-> x.rendered.isRecording],
              !.nStarted = k, !.lastCall = "start"]

\* startRecording from the granted stream up to `await startInteraction()`
startRecordingGranted(x, k) ==
    [x EXCEPT !.streamRef = k,
              !.streams[k] = [state |-> "live", stops |-> 0],
              !.mediaRecorderRef = k,
              !.recorders[k] = "inactive",
              !.recognizers[k] = [state |-> "running", onend |-> TRUE,
                                  stops |-> 0],
              !.recognitionRef = k,
              !.starts[k].pc = "backend"]

\* Variant: the catch branch rethrows without setError.
startRecordingFailed_Silent(x, k) ==
    [x EXCEPT !.starts[k].pc = "failed"]

\* startRecording: the catch branch (setError, rethrow)
startRecordingFailed(x, k) ==
    [x EXCEPT !.error = TRUE, !.starts[k].pc = "failed"]

\* startRecording after startInteraction() answered with session id k;
\* `throws`: mediaRecorder.start(1000) raised
startRecordingStarted(x, k, throws) ==
    LET x1 == [x EXCEPT !.sessionId = k]
    IN  IF throws
        THEN startRecordingFailed(x1, k)
        ELSE [x1 EXCEPT !.recorders[k] = "recording",
                        !.isRecording = TRUE,
                        !.starts[k].pc = "done"]

\* recognition.onend of recognizer r: restart `if (isRecording &&
\* recognitionRef.current)`, isRecording being the value closed over by the
\* startRecording call that created the handler
onend(x, r) ==
    IF x.starts[r].isRecording /\ x.recognitionRef # NoRef
    THEN [x EXCEPT !.recognizers[x.recognitionRef].state = "running"]
    ELSE x

\* Variant: the transcript is submitted untrimmed.
finalTranscript_Untrimmed(live, accumulated) ==
    IF live # <<>> THEN live ELSE accumulated

\* The transcript stopRecording submits
finalTranscript(live, accumulated) ==
    IF Trim(live) # <<>> THEN Trim(live) ELSE Trim(accumulated)

\* stopRecording, as call c, up to `await new Promise(resolve => {
\* mediaRecorder.onstop = resolve; mediaRecorder.stop() })`
stopRecording(x, c) ==
    LET x1 == stopRecognition([x EXCEPT !.isProcessing = TRUE,
                                        !.error = FALSE])
        m == x.mediaRecorderRef
        x2 == [x1 EXCEPT !.stopCalls[c] =
                  [pc |-> "onstop", sessionId |-> x.rendered.sessionId,
                   transcript |-> finalTranscript(x.rendered.liveTranscript,
                                                  x.transcriptRef),
                   recorder |-> m],
                         !.onstop[m] = c]
    IN  recorderStop(x2, m)

\* stopRecording after the recorder's stop event, up to
\* `await stopInteraction(...)`
stopRecordingStopped(x, c) ==
    LET x1 == stopTracks(x)
        call == x.stopCalls[c]
    IN  [x1 EXCEPT !.submitted = @ \cup {[sessionId |-> call.sessionId,
                                         transcript |-> call.transcript]},
                   !.sent[call.sessionId] = @ + 1,
                   !.stopCalls[c].pc = "backend"]

\* stopRecording: the catch branch (setError, rethrow)
stopRecordingCaught(x) ==
    [x EXCEPT !.error = TRUE, !.rejected = @ + 1]

\* stopRecording: the finally branch
stopRecordingFinally(x) ==
    [x EXCEPT !.isProcessing = FALSE, !.mediaRecorderRef = NoRef,
              !.transcriptRef = <<>>, !.finals = <<>>, !.interim = <<>>]

\* stopRecording after stopInteraction answered or failed: try / finally
stopRecordingDone(x, c, ok) ==
    LET x1 == IF ok
              THEN [x EXCEPT !.isRecording = FALSE, !.sessionId = NoRef,
                             !.liveTranscript = <<>>]
              ELSE stopRecordingCaught(x)
    IN  [stopRecordingFinally(x1) EXCEPT !.stopCalls[c] = NoStop]

\* stopRecording when mediaRecorder.stop() raises InvalidStateError: the
\* recognizer has been stopped and onstop holds the resolver of this call,
\* whose promise rejects; catch and finally run
stopRecordingThrown(x) ==
    LET x1 == stopRecognition([x EXCEPT !.isProcessing = TRUE,
                                        !.error = FALSE])
        x2 == [x1 EXCEPT !.onstop[x.mediaRecorderRef] = NoRef]
    IN  stopRecordingFinally(stopRecordingCaught(x2))

\* The stopRecording calls that are not in progress
FreeStops(x) == {c \in StopIds : x.stopCalls[c].pc = "none"}

\* cancelRecording
cancelRecording(x) ==
    LET x1 == stopRecognition(x)
        x2 == IF x1.mediaRecorderRef # NoRef
              THEN recorderStop(x1, x1.mediaRecorderRef)
              ELSE x1
        x3 == stopTracks(x2)
    IN  [x3 EXCEPT !.isRecording = FALSE, !.sessionId = NoRef,
                   !.isProcessing = FALSE, !.liveTranscript = <<>>,
                   !.mediaRecorderRef = NoRef, !.transcriptRef = <<>>,
                   !.finals = <<>>, !.interim = <<>>,
                   !.cancelledIds = @ \cup ({x.sessionId} \ {NoRef}),
                   !.lastCall = "cancel"]

\* cancelRecording when mediaRecorder.stop() raises InvalidStateError: the
\* recognizer has been stopped, the rest of the handler does not run
cancelRecordingThrown(x) ==
    [stopRecognition(x) EXCEPT
        !.cancelledIds = @ \cup ({x.sessionId} \ {NoRef}),
        !.lastCall = "cancel"]

\* vars without ix
vvars == <<isStreaming, cameraReq, liveLoopRef, isLiveRunning, muted,
           currentState, stateHist, lastTrace, detections, latency,
           lastNarrative, isProcessing, isDetecting, rendered, tasks,
           lastResp, lastDet, detCalls, synth, cancelled, onCompleteRef,
           isSpeaking, speechLog, nSpoken, media>>

IxBecomes(x) == ix' = x /\ UNCHANGED vvars

\* ---- useInteraction: actions ----------------------------------------------
\* The client calls startRecording().
StartRecordingOf(maxSessions) ==
    /\ ix.nStarted < maxSessions
    /\ IxBecomes(IxCommit(startRecording(ix, ix.nStarted + 1)))

\* getUserMedia resolves with a stream.
MicGranted ==
    \E k \in Sessions :
        /\ ix.starts[k].pc = "mic"
        /\ IxBecomes(startRecordingGranted(ix, k))

\* getUserMedia rejects.
MicDenied ==
    \E k \in Sessions :
        /\ ix.starts[k].pc = "mic"
        /\ IxBecomes(startRecordingFailed(ix, k))

\* startInteraction() resolves.  mediaRecorder.start can only raise when the
\* tracks of its stream have been stopped meanwhile.
BackendStarted ==
    \E k \in Sessions :
        /\ ix.starts[k].pc = "backend"
        /\ \E throws \in BOOLEAN :
              /\ throws => ix.streams[k].state # "live"
              /\ IxBecomes(startRecordingStarted(ix, k, throws))

\* startInteraction() rejects.
BackendStartFailed ==
    \E k \in Sessions :
        /\ ix.starts[k].pc = "backend"
        /\ IxBecomes(startRecordingFailed(ix, k))

\* A SpeechRecognitionEvent of a running recognizer.
RecognizerResult ==
    \E r \in Sessions, results \in ResultEvents(Len(ix.finals)) :
        /\ ix.recognizers[r].state = "running"
        /\ Len(ix.finals) + Len(FinalFragments(results)) <= MaxFinal
        /\ IxBecomes(onresult(ix, results))

\* A running recognizer ends by itself (silence); its onend handler runs if
\* it is still attached.
RecognizerEnd ==
    \E r \in Sessions :
        /\ ix.recognizers[r].state = "running"
        /\ LET x1 == [ix EXCEPT !.recognizers[r].state = "ended",
                                !.selfEnded = @ \cup {r}]
           IN  IxBecomes(IF ix.recognizers[r].onend THEN onend(x1, r) ELSE x1)

\* The client calls stopRecording(); `if (!isRecording ||
\* !mediaRecorderRef.current) return null`.
\* stop() of a recorder that is not recording does nothing under the current
\* MediaStream Recording standard and raises InvalidStateError in browsers
\* that follow the earlier one.
StopRecording ==
    /\ FreeStops(ix) # {}
    /\ ix.rendered.isRecording /\ ix.mediaRecorderRef # NoRef
    /\ \E throws \in BOOLEAN :
          /\ throws => ix.recorders[ix.mediaRecorderRef] # "recording"
          /\ IxBecomes(IxCommit(
                 IF throws THEN stopRecordingThrown(ix)
                 ELSE stopRecording(ix, Min(FreeStops(ix)))))

\* The stop event of a recorder; its onstop handler resumes the
\* stopRecording call whose resolver it holds.
RecorderStopped ==
    \E m \in Sessions :
        /\ ix.recorders[m] = "stopping"
        /\ LET x1 == [ix EXCEPT !.recorders[m] = "inactive"]
               c == ix.onstop[m]
           IN  IxBecomes(IF c # NoRef /\ ix.stopCalls[c].pc = "onstop"
                         THEN stopRecordingStopped(x1, c)
                         ELSE x1)

\* stopInteraction() resolves or rejects.
StopResponse ==
    \E c \in StopIds :
        /\ ix.stopCalls[c].pc = "backend"
        /\ \E ok \in BOOLEAN : IxBecomes(stopRecordingDone(ix, c, ok))

\* The client calls cancelRecording().
CancelRecording ==
    /\ ix.nStarted > 0
    /\ \E throws \in BOOLEAN :
          /\ throws => /\ ix.mediaRecorderRef # NoRef
                       /\ ix.recorders[ix.mediaRecorderRef] # "recording"
          /\ IxBecomes(IxCommit(IF throws THEN cancelRecordingThrown(ix)
                                          ELSE cancelRecording(ix)))

\* React commits the updates made outside a DOM event.
IxRender ==
    /\ ix.rendered # IxSnapshot(ix)
    /\ IxBecomes(IxCommit(ix))

StartRecording == StartRecordingOf(MaxSessions)

\* The hook driven by any client: calls in any order, at any time.
NextIx ==
    \/ StartRecording \/ MicGranted \/ MicDenied
    \/ BackendStarted \/ BackendStartFailed
    \/ StopRecording \/ RecorderStopped \/ StopResponse
    \/ CancelRecording \/ IxRender

SpecIx == Init /\ [][NextIx]_vars

\* The first session after mounting is recorded and submitted: the client
\* calls startRecording once, the devices and the backend are available,
\* and the client never cancels.
StartRecordingAlone ==
    /\ ix.nStarted = 0
    /\ StartRecording

NextTalk ==
    \/ StartRecordingAlone \/ MicGranted \/ BackendStarted
    \/ RecognizerResult \/ RecognizerEnd \/ IxRender
    \/ StopRecording \/ RecorderStopped \/ StopResponse

SpecTalk == Init /\ [][NextTalk]_vars

\* ---- useInteraction: properties ---------------------------------------------
\* C13: once cancelRecording() has been called, and as long as
\* startRecording() is not called again, no microphone track is active:
\* every stream obtained by a session started before the cancel is stopped,
\* also when the cancel came while startRecording or stopRecording was in
\* progress.
C13_CancelReleasesMicrophone ==
    ix.lastCall = "cancel"
        => \A k \in Sessions : ix.streams[k].state # "live"

\* C14: cancelRecording() sends nothing to the backend, and no
\* stopInteraction request is sent for a session after cancelRecording() was
\* called for it, also when a stopRecording call was in progress.
C14_CancelSubmitsNothing ==
    [][ /\ ix'.cancelledIds # ix.cancelledIds
              => ix'.submitted = ix.submitted
        /\ \A q \in ix'.submitted \ ix.submitted :
              q.sessionId \notin ix.cancelledIds ]_vars

\* Session k has ended: its startRecording failed, or it was recording and
\* a successful stopRecording or a cancelRecording has ended the recording.
SessionEnded(k) ==
    \/ ix.starts[k].pc = "failed"
    \/ /\ ix.starts[k].pc = "done"
       /\ ~ix.isRecording
       /\ FreeStops(ix) = StopIds

\* C15: when a session has ended, by whichever path, the microphone stream
\* and the recognizer it acquired have each been released exactly once.
C15_ReleasedExactlyOnce ==
    \A k \in Sessions :
        SessionEnded(k)
            => /\ ix.streams[k].state # "none"
                    => /\ ix.streams[k].state = "stopped"
                       /\ ix.streams[k].stops = 1
               /\ ix.recognizers[k].state # "none"
                    => /\ ix.recognizers[k].state # "running"
                       /\ ix.recognizers[k].stops = 1

C17_RecognizerRestarted ==
    [][ \A r \in Sessions :
          (/\ r \in ix'.selfEnded \ ix.selfEnded
           /\ ix.isRecording /\ ix.rendered.isRecording
           /\ ix.recognitionRef = r /\ ix.recognizers[r].onend)
              => ix'.recognizers[r].state = "running" ]_vars

\* ---- the live loop driven by any caller --------------------------------------
\* start(): handleStartLive called whatever the page shows.
StartCall ==
    /\ FreeTasks(Cur) # {}
    /\ LET t == Min(FreeTasks(Cur))
       IN  IF rendered.isStreaming
           THEN Becomes(Commit(handleStartLive(Cur, t)))
           ELSE /\ ~cameraReq
                /\ Becomes(Commit(handleStartLiveAwait(Cur, t)))

\* stop(): handleStopLive called whatever the page shows.
StopCall ==
    /\ liveLoopRef
    /\ Becomes(Commit(handleStopLive(Cur)))

LiveResponseOk ==
    \E t \in TaskIds :
        LiveResponseOf(t, {TRUE}, {PersonAhead}, MaxSpoken)

\* The service answers and every utterance plays to its end.
NextStart ==
    \/ StartCamera \/ CameraGranted \/ CameraDenied \/ Render
    \/ StartCall \/ StopCall \/ LiveResponseOk \/ LoopTimer
    \/ UtteranceStart \/ UtteranceEnd \/ CancelledEvent

SpecStart == Init /\ [][NextStart]_vars

Running == {t \in TaskIds : tasks[t].pc \in Suspended}

\* C18: start() is idempotent while the loop is running: called with the run
\* flag true and a loop chain alive, it starts no further chain and issues
\* no further /live call.
C18_StartIdempotent ==
    [][ (liveLoopRef /\ Running # {})
            => /\ \A t \in TaskIds :
                     tasks[t].pc = "none" => tasks'[t].pc \in {"none", "camera"}
               /\ Cardinality(LiveCalls') <= 1 ]_vars

\* C19: when start() was called with the camera off and the camera then
\* starts, the run flag is set, LoopState leaves Idle for Capturing /
\* Thinking and the loop has begun: the call's chain has captured a frame
\* and issued its /live call (or waits to capture again).
C19_StartBeginsLoop ==
    [][ \A t \in TaskIds :
          (tasks[t].pc = "camera" /\ tasks'[t].pc # "camera" /\ isStreaming')
              => /\ liveLoopRef' /\ isLiveRunning'
                 /\ tasks'[t].pc \in {"fetch", "retry"}
                 /\ currentState' \in {"capturing", "thinking"} ]_vars

\* C20: when start() was called with the camera off and the camera cannot
\* be started, the loop does not start: run flag and live-running indicator
\* stay false and no /live call is issued.
C20_CameraFailureStartsNothing ==
    [][ \A t \in TaskIds :
          (tasks[t].pc = "camera" /\ tasks'[t].pc # "camera" /\ ~isStreaming'
              /\ ~liveLoopRef)
              => /\ ~liveLoopRef' /\ ~isLiveRunning'
                 /\ LiveCalls' = LiveCalls ]_vars

\* ---- useInteraction: failures ------------------------------------------------
\* C21: when a stopRecording() call ends in a failure, the error is shown
\* and, the call having finished, the hook holds no microphone stream and no
\* recognizer any more: the stream it held has been stopped and the
\* recognizer has been stopped and released.
C21_StopFailureReleases ==
    [][ix'.rejected > ix.rejected =>
          /\ ix'.error
          /\ ix'.streamRef = NoRef
          /\ ix'.recognitionRef = NoRef
          /\ \A k \in Sessions :
                 /\ ix.streamRef = k => ix'.streams[k].state = "stopped"
                 /\ ix.recognitionRef = k =>
                        ix'.recognizers[k].state # "running"]_vars

\* C22: when getUserMedia rejects, startRecording() ends in its catch branch
\* with the error shown, and the call has started nothing: its session has
\* no stream, no recorder and no recognizer, no startInteraction request was
\* made for it, and the recording state, the session id and the device refs
\* of the hook are what they were.
C22_DeniedStartsNothing ==
    [][\A k \in Sessions :
          (ix.starts[k].pc = "mic" /\ ix'.starts[k].pc = "failed") =>
              /\ ix'.error
              /\ ix'.streams[k].state = "none"
              /\ ix'.recorders[k] = "none"
              /\ ix'.recognizers[k].state = "none"
              /\ ix'.isRecording = ix.isRecording
              /\ ix'.sessionId = ix.sessionId
              /\ ix'.streamRef = ix.streamRef
              /\ ix'.mediaRecorderRef = ix.mediaRecorderRef
              /\ ix'.recognitionRef = ix.recognitionRef
              /\ ix'.sent = ix.sent]_vars

\* The only startRecording call so far was denied the microphone.
C22_Witness ==
    /\ ix.nStarted = 1
    /\ ix.starts[1].pc = "failed"
    /\ ix.streams[1].state = "none"
    /\ ix.error
    /\ ~ix.isRecording /\ ix.sessionId = NoRef
    /\ ix.mediaRecorderRef = NoRef /\ ix.recognitionRef = NoRef

\* The pages show the Start button while isRecording is false and disable it
\* while isProcessing is true; stopRecording() and cancelRecording() are
\* called by any caller, at any time and any number of times.
StartRecordingShown ==
    /\ ~ix.rendered.isRecording
    /\ ~ix.isProcessing
    /\ StartRecording

NextStop ==
    \/ StartRecordingShown \/ MicGranted \/ MicDenied
    \/ BackendStarted \/ BackendStartFailed
    \/ StopRecording \/ RecorderStopped \/ StopResponse
    \/ CancelRecording \/ IxRender

SpecStop == Init /\ [][NextStop]_vars

\* C26: for one session id at most one stopInteraction request is sent.
C26_OneSubmissionPerSession ==
    \A id \in Sessions : ix.sent[id] <= 1

\* ---- LoopState and the speech log -----------------------------------------
\* C24: handleStopLive resets the read models of the live session: in the
\* step that clears the run flag the speech log becomes empty and LoopState
\* becomes idle.
C24_StopResetsReadModels ==
    [][(liveLoopRef /\ ~liveLoopRef')
          => (speechLog' = <<>> /\ currentState' = "idle")]_vars

\* The edges of LoopState listed for the loop
ListedEdges ==
    { <<"idle", "capturing">>, <<"capturing", "thinking">>,
      <<"thinking", "speaking">>, <<"speaking", "done">>,
      <<"done", "capturing">>, <<"capturing", "capturing">> }

\* Some runLiveLoop invocation issues its liveNarrate call in this step,
\* having set LoopState to capturing and then to thinking.
IssuesCall == \E t \in TaskIds : tasks[t].pc # "fetch" /\ tasks'[t].pc = "fetch"

\* C25: LoopState changes only along the listed edges, and from any state
\* to idle.  A step that issues a liveNarrate call passes through capturing.
C25_LoopStateEdges ==
    [][IF IssuesCall
       THEN /\ <<currentState, "capturing">> \in ListedEdges
            /\ currentState' = "thinking"
       ELSE \/ currentState' = currentState
            \/ currentState' = "idle"
            \/ <<currentState, currentState'>> \in ListedEdges]_vars

\* The narrative of the result that getLiveNarrative returns in this step
ArrivedNarrative == IF lastResp' = "fail" THEN Apology ELSE lastNarrative'

\* C29: when a result arrives while the loop is running, the narrative is
\* spoken (LoopState speaking, one more utterance) if and only if it is
\* non-empty and speech is not muted at that moment; otherwise nothing is
\* spoken and LoopState goes to done.  `muted` is the page's mute setting
\* when the result arrives, so a toggle made while the loop runs counts for
\* the iterations that follow it.
C29_SpokenIffNarrativeAndUnmuted ==
    [][\A t \in TaskIds :
          (liveLoopRef /\ tasks[t].pc = "fetch" /\ tasks'[t].pc # "fetch")
              => IF ArrivedNarrative # NoNarrative /\ ~muted
                 THEN /\ nSpoken' = nSpoken + 1
                      /\ tasks'[t].pc = "speak"
                      /\ currentState' = "speaking"
                 ELSE /\ nSpoken' = nSpoken
                      /\ currentState' = "done"]_vars

\* ---- the order of one chain -----------------------------------------------
\* C27: a chain issues its next liveNarrate call only after the utterance
\* of its previous iteration has ended or errored: no runLiveLoop
\* invocation has a liveNarrate call in flight while an utterance it
\* created is queued or playing.
C27_NoCallDuringOwnUtterance ==
    \A t \in TaskIds :
        tasks[t].pc = "fetch" => ~(synth.state # "idle" /\ synth.by = t)

\* ---- the App page: the live loop beside the quick phrases ------------------
ExcuseMe == "Excuse me"

\* A quick-phrase button of the App page: handleQuickPhrase calls
\* speak(phrase) without onComplete.  The buttons are always enabled.
QuickPhrase ==
    /\ nSpoken < MaxSpoken
    /\ Becomes(Commit(speak(Cur, ExcuseMe, NoCallback)))

\* The loop is started and never stopped; the user taps quick phrases.
NextApp ==
    \/ StartCamera \/ CameraGranted \/ Render
    \/ StartLive \/ LiveResponse \/ LoopTimer
    \/ UtteranceStart \/ UtteranceEnd \/ UtteranceError \/ CancelledEvent
    \/ QuickPhrase

SpecApp == Init /\ [][NextApp]_vars

\* The speech engine reports start, and end or error, for every utterance,
\* also for a cancelled one.
SpecAppFair ==
    /\ SpecApp
    /\ WF_vars(UtteranceStart)
    /\ WF_vars(UtteranceEnd \/ UtteranceError)
    /\ WF_vars(CancelledEvent)

\* C23: while the run flag stays true, an iteration that awaits
\* speakAndWait is eventually resumed (it reaches done and schedules the
\* next iteration), given that the engine reports end or error for every
\* utterance, also when another caller starts speech meanwhile.
C23_LoopNeverStuck ==
    \A t \in TaskIds :
        (tasks[t].pc = "speak") ~> (tasks[t].pc # "speak" \/ ~liveLoopRef)

\* C28: while the loop is running and an utterance created by the loop is
\* queued or playing, no other speak / speakAndWait call starts an
\* utterance (which would cancel it): only stop() cuts it off.
C28_LoopUtteranceNotCutOff ==
    [][(liveLoopRef /\ synth.state # "idle" /\ synth.by # NoCallback)
          => nSpoken' = nSpoken]_vars

\* ---- MediaPage: the live loop over an uploaded video -----------------------
\* MediaPage.captureFrame for a video: null without canvas or element, and
\* while videoWidth or videoHeight is 0
mediaCaptureFrame(s) == s.media.loaded /\ s.media.ready

\* Variant: the loop returns on a paused video without clearing the flag.
haltPaused_KeepsFlag(s, t) ==
    setCurrentState([s EXCEPT !.tasks[t] = NoTask,
                              !.media.haltedBy = "loop"], "idle")

\* MediaPage.runLiveLoop: the branch taken when the video is paused or ended
haltPaused(s, t) ==
    setCurrentState([s EXCEPT !.liveLoopRef = FALSE,
                              !.isLiveRunning = FALSE,
                              !.tasks[t] = NoTask,
                              !.media.haltedBy = "loop"], "idle")

\* Variant: the run flag is not looked at when the loop function is entered.
mediaRunLiveLoop_NoRecheck(s, t) ==
    IF s.media.loaded /\ s.media.paused
    THEN haltPaused(s, t)
    ELSE LET s1 == setCurrentState(s, "capturing")
         IN  IF ~mediaCaptureFrame(s1)
             THEN [s1 EXCEPT !.tasks[t].pc = "retry"]
             ELSE [setIsProcessing(setCurrentState(s1, "thinking"), TRUE)
                      EXCEPT !.tasks[t].pc = "fetch"]

\* MediaPage.runLiveLoop of task t, from its first line to its first
\* suspension
mediaRunLiveLoop(s, t) ==
    IF ~s.liveLoopRef
    THEN [s EXCEPT !.tasks[t] = NoTask]
    ELSE IF s.media.loaded /\ s.media.paused
    THEN haltPaused(s, t)
    ELSE LET s1 == setCurrentState(s, "capturing")
         IN  IF ~mediaCaptureFrame(s1)
             THEN [s1 EXCEPT !.tasks[t].pc = "retry"]
             ELSE [setIsProcessing(setCurrentState(s1, "thinking"), TRUE)
                      EXCEPT !.tasks[t].pc = "fetch"]

\* MediaPage.handleStartLive, as task t: video.play(), then the loop
mediaHandleStartLive(s, t) ==
    LET s1 == [s EXCEPT !.media.paused = FALSE,
                        !.liveLoopRef = TRUE, !.isLiveRunning = TRUE,
                        !.tasks[t] = [NoTask EXCEPT !.muted = s.muted]]
    IN  mediaRunLiveLoop(s1, t)

\* MediaPage.handleStopLive: as on VisionPage, then video.pause()
mediaHandleStopLive(s) ==
    [handleStopLive(s) EXCEPT !.media.paused = TRUE,
                              !.media.haltedBy = "stop"]

\* A video file is chosen or dropped: processFile.
SelectMedia ==
    /\ ~media.loaded
    /\ Becomes(Commit([Cur EXCEPT !.media.loaded = TRUE,
                                  !.isLiveRunning = FALSE,
                                  !.liveLoopRef = FALSE]))

\* The loadedmetadata event of the video.
MediaLoaded ==
    /\ media.loaded /\ ~media.ready
    /\ Becomes([Cur EXCEPT !.media.ready = TRUE])

\* The play / pause button of the player: handlePlayPause.
PlayPause ==
    /\ media.loaded
    /\ \E p \in {~media.paused} :
          Becomes(Commit([Cur EXCEPT !.media.paused = p]))

\* "Play & Analyze" (shown when ~isLiveRunning, disabled without mediaUrl)
MediaStartLive ==
    /\ ~isLiveRunning /\ media.loaded
    /\ FreeTasks(Cur) # {}
    /\ Becomes(Commit(mediaHandleStartLive(Cur, Min(FreeTasks(Cur)))))

\* "Stop" (shown when isLiveRunning)
MediaStopLive ==
    /\ isLiveRunning
    /\ Becomes(Commit(mediaHandleStopLive(Cur)))

\* setTimeout(() => runLiveLoop(), 500 | 100) fires for task t.
MediaLoopTimer ==
    \E t \in TaskIds :
        /\ tasks[t].pc \in {"retry", "pace"}
        /\ Becomes(mediaRunLiveLoop(Cur, t))

NextMedia ==
    \/ SelectMedia \/ MediaLoaded \/ PlayPause
    \/ MediaStartLive \/ MediaStopLive \/ MediaLoopTimer
    \/ LiveResponse
    \/ UtteranceStart \/ UtteranceEnd \/ UtteranceError \/ CancelledEvent

SpecMedia == InitRun /\ [][NextMedia]_vars

C38_PausedVideoStopsLoop ==
    [][\A t \in TaskIds :
          (/\ tasks[t].pc \in {"retry", "pace"}
           /\ tasks'[t] # tasks[t]
           /\ liveLoopRef /\ media.paused)
              => /\ tasks'[t] = NoTask
                 /\ ~liveLoopRef' /\ ~isLiveRunning'
                 /\ currentState' = "idle"
                 /\ stateHist' \in {stateHist, Append(stateHist, "idle")}
                 /\ LiveCalls' = LiveCalls
                 /\ isProcessing' = isProcessing]_vars

\* The video was paused during a running loop and the loop has stopped
\* itself at its next iteration.
C38_Witness ==
    /\ media.haltedBy = "loop" /\ media.paused
    /\ ~liveLoopRef /\ ~isLiveRunning /\ currentState = "idle"
    /\ \A t \in TaskIds : tasks[t] = NoTask
    /\ nSpoken > 0

\* ---- MediaPage: files loaded and cleared while the loop runs ---------------
\* MediaPage.processFile for a video file
processFile(s) ==
    [s EXCEPT !.media = [loaded |-> TRUE, ready |-> FALSE, paused |-> TRUE,
                         haltedBy |-> "file"],
              !.isLiveRunning = FALSE,
              !.liveLoopRef = FALSE]

\* MediaPage.handleClearMedia
handleClearMedia(s) ==
    [s EXCEPT !.media = [NoMedia EXCEPT !.haltedBy = "file"],
              !.isLiveRunning = FALSE,
              !.liveLoopRef = FALSE]

\* Another file is chosen or dropped while one is loaded.
ReplaceMedia ==
    /\ media.loaded
    /\ Becomes(Commit(processFile(Cur)))

\* The clear button next to the file name.
ClearMedia ==
    /\ media.loaded
    /\ Becomes(Commit(handleClearMedia(Cur)))

\* The ended event of the video: handleVideoEnded
VideoEnded ==
    /\ media.loaded /\ media.ready /\ ~media.paused
    /\ LET s1 == [Cur EXCEPT !.media.paused = TRUE]
       IN  Becomes(Commit(IF isLiveRunning THEN mediaHandleStopLive(s1)
                                           ELSE s1))

NextFiles ==
    \/ SelectMedia \/ MediaLoaded \/ ReplaceMedia \/ ClearMedia \/ VideoEnded
    \/ MediaStartLive \/ MediaStopLive \/ MediaLoopTimer
    \/ LiveResponse
    \/ UtteranceStart \/ UtteranceEnd

SpecFiles == Init /\ [][NextFiles]_vars

\* C32: whenever the loop is not running (the run flag is false and no
\* runLiveLoop invocation is in flight or scheduled), LoopState is idle.
C32_IdleIsOnlyRestingState ==
    (~liveLoopRef /\ \A t \in TaskIds : tasks[t].pc = "none")
        => currentState = "idle"

\* ---- the frame source stopped under a running loop -------------------------
\* stopCamera called without the gating of the Stop Camera button
\* (disabled while isLiveRunning).
StopCameraCall ==
    /\ isStreaming
    /\ Becomes(Commit([Cur EXCEPT !.isStreaming = FALSE]))

NextCam ==
    \/ StartCamera \/ CameraGranted \/ Render \/ StopCameraCall
    \/ StartLive \/ StopLive \/ LiveResponse \/ LoopTimer
    \/ UtteranceStart \/ UtteranceEnd \/ CancelledEvent

SpecCam == Init /\ [][NextCam]_vars

\* C31: once the frame source has been stopped (isStreaming is false) no
\* iteration of the loop issues a liveNarrate call.
C31_NoCallAfterSourceStopped ==
    [][~isStreaming => ~IssuesCall]_vars

\* ---- useInteraction: the recognizer after stop and cancel --------------------
\* The client starts, stops and cancels in any order; every recognizer that
\* was stopped delivers its end event.  Calls of stopRecording stay suspended
\* at the recorder's stop event.
\* The end event of a recognizer that was stopped by stop(): its onend
\* handler runs if it is still attached.
RecognizerStopped ==
    \E r \in Sessions :
        /\ ix.recognizers[r].state = "stopped"
        /\ LET x1 == [ix EXCEPT !.recognizers[r].state = "ended"]
           IN  IxBecomes(IF ix.recognizers[r].onend THEN onend(x1, r) ELSE x1)

NextRec ==
    \/ StartRecording \/ MicGranted \/ BackendStarted \/ IxRender
    \/ StopRecording \/ CancelRecording
    \/ RecognizerStopped

SpecRec == Init /\ [][NextRec]_vars

\* C33: a recognizer on which stopRecording() or cancelRecording() has called
\* stop() is never started again, also when its end event fires afterwards.
C33_NoRestartAfterStop ==
    [][\A r \in Sessions :
          ix.recognizers[r].stops > 0
              => ix'.recognizers[r].state # "running"]_vars

\* The end event of a stopped recognizer has fired, for a recognizer whose
\* handler closed over isRecording = true, while the session was shown as
\* recording.
C33_Witness ==
    \E r \in Sessions :
        /\ ix.recognizers[r].state = "ended"
        /\ ix.recognizers[r].stops > 0
        /\ r \notin ix.selfEnded
        /\ ix.starts[r].isRecording

\* ---- useInteraction: the session after a cancel ------------------------------
\* The session is Idle: not recording, not processing, no session id, empty
\* live transcript, no recorder.
SessionIdle ==
    /\ ~ix.isRecording /\ ~ix.isProcessing
    /\ ix.sessionId = NoRef
    /\ ix.liveTranscript = <<>>
    /\ ix.mediaRecorderRef = NoRef

\* C34: from a cancelRecording() call until the next startRecording() call
\* the session is Idle, also when a startRecording or stopRecording call
\* that was suspended at the cancel resumes afterwards.
C34_CancelResetsToIdle ==
    ix.lastCall = "cancel" => SessionIdle

\* ---- useInteraction: one session at a time -----------------------------------
LiveStreams == {k \in Sessions : ix.streams[k].state = "live"}

LiveRecorders == {k \in Sessions : ix.recorders[k] = "recording"}

LiveRecognizers == {k \in Sessions : ix.recognizers[k].state = "running"}

\* C35: at most one microphone stream, one recorder and one recognizer
\* acquired by startRecording are live, and none is live while the session
\* is Idle and no call is in progress.
C35_OneSessionLive ==
    /\ Cardinality(LiveStreams) <= 1
    /\ Cardinality(LiveRecorders) <= 1
    /\ Cardinality(LiveRecognizers) <= 1
    /\ (/\ SessionIdle
        /\ \A k \in Sessions : ix.starts[k].pc \notin {"mic", "backend"}
        /\ FreeStops(ix) = StopIds)
          => LiveStreams \cup LiveRecorders \cup LiveRecognizers = {}

\* ---- useDetection: the isProcessing flag -------------------------------------
\* C36: isProcessing is true exactly while at least one call that sets it
\* (here the /live calls of the loop) is in flight; it is never false while
\* such a call is outstanding, also when two calls overlap.
C36_ProcessingWhileInFlight ==
    isProcessing <=> LiveCalls # {}

\* ---- useInteraction: stopRecording refused at its guard ----------------------
\* Variant: the guard is tested after setIsProcessing(true).
stopRecordingRefused_GuardLate(x) ==
    [x EXCEPT !.isProcessing = TRUE,
              !.returnedNull = @ + 1,
              !.refusedAt = [isRecording |-> x.rendered.isRecording,
                             recorder |-> x.mediaRecorderRef]]

\* stopRecording: `if (!isRecording || !mediaRecorderRef.current) return null`
stopRecordingRefused(x) ==
    [x EXCEPT !.returnedNull = @ + 1,
              !.refusedAt = [isRecording |-> x.rendered.isRecording,
                             recorder |-> x.mediaRecorderRef]]

\* The client calls stopRecording() while the hook's isRecording of the last
\* render is false or there is no recorder.
StopRecordingRefused ==
    /\ ~(ix.rendered.isRecording /\ ix.mediaRecorderRef # NoRef)
    /\ ix.returnedNull < MaxRefused
    /\ IxBecomes(stopRecordingRefused(ix))

NextGuard ==
    \/ StartRecordingShown \/ MicGranted \/ BackendStarted \/ IxRender
    \/ StopRecording \/ StopRecordingRefused
    \/ RecorderStopped \/ StopResponse

SpecGuard == Init /\ [][NextGuard]_vars

\* C37: a stopRecording() call that finds the session not recording or
\* without a recorder returns null and changes nothing: no request is sent,
\* and status, processing flag, error, session id, transcript, resources and
\* the calls in progress are as they were.
C37_RefusedStopChangesNothing ==
    [][ix'.returnedNull > ix.returnedNull
          => ix' = [ix EXCEPT !.returnedNull = @ + 1,
                              !.refusedAt = ix'.refusedAt]]_vars

\* stopRecording was refused while the session was shown as recording: no
\* recorder was held.
C37_Witness ==
    /\ ix.returnedNull > 0
    /\ ix.refusedAt.isRecording
    /\ ix.refusedAt.recorder = NoRef
====
